---- MODULE Spec2Model ----
(***************************************************************************)
(* Team roster (src/team_roster.py): a module-level list `team` of          *)
(* TeamMember objects with the functions display_team, add_member and       *)
(* find_member, and a script entry point that calls display_team once.      *)
(*                                                                          *)
(* Text.  A member's name is a sequence of one-character strings, because   *)
(* find_member inspects it character by character (str.lower).  The role    *)
(* and the favourite language are only ever interpolated into output, so    *)
(* they are strings.  Characters are ASCII.  Standard output is a sequence  *)
(* of lines; print(x) ends x with a newline, so a text with an embedded     *)
(* "\n" contributes two lines.                                              *)
(*                                                                          *)
(* Objects.  Every TeamMember the program constructs has its own identity   *)
(* (field id, the order of construction), so that two members with equal    *)
(* fields are still two records.                                            *)
(***************************************************************************)
EXTENDS Naturals, Sequences, FiniteSets, TLC

VARIABLES entry, pc, team, allocated, stdout, lastCall, ret, trace, adds, displays, lastAdded

vars == <<entry, pc, team, allocated, stdout, lastCall, ret, trace, adds, displays, lastAdded>>

\* ---------------------------------------------------------------- bounds

\* add_member calls explored per run
MaxAdds == 2

\* display_team calls explored per run
MaxDisplays == 1

\* ------------------------------------------------------------------ text

Uppercase ==
  <<"A","B","C","D","E","F","G","H","I","J","K","L","M",
    "N","O","P","Q","R","S","T","U","V","W","X","Y","Z">>

Lowercase ==
  <<"a","b","c","d","e","f","g","h","i","j","k","l","m",
    "n","o","p","q","r","s","t","u","v","w","x","y","z">>

\* the characters of the texts the model handles
Alphabet ==
  {Uppercase[i] : i \in 1..Len(Uppercase)}
    \cup {Lowercase[i] : i \in 1..Len(Lowercase)} \cup {" "}

\* str.lower() on one ASCII character: a capital letter to its small
\* letter, any other character to itself
LowerChar ==
  [c \in Alphabet |->
     IF \E i \in 1..Len(Uppercase) : Uppercase[i] = c
     THEN Lowercase[CHOOSE i \in 1..Len(Uppercase) : Uppercase[i] = c]
     ELSE c]

\* a mutant of lower: the identity (a case-sensitive comparison)
lowerIdentity(s) == s

\* str.lower(): every character lowered, length and order kept
lower(s) == [i \in 1..Len(s) |-> LowerChar[s[i]]]

\* the characters of a name as one string, as an f-string interpolates it
RECURSIVE Str(_)
Str(s) == IF s = <<>> THEN "" ELSE Head(s) \o Str(Tail(s))

\* "=" * n
RECURSIVE Repeat(_, _)
Repeat(c, n) == IF n = 0 THEN "" ELSE c \o Repeat(c, n - 1)

BannerWidth == 50

Banner == Repeat("=", BannerWidth)

\* ---------------------------------------------------------------- objects

\* Python's None
None == [none |-> TRUE]

\* TeamMember.__init__: the three fields as given; id is the object's identity
TeamMember(id, name, role, favorite_language) ==
  [id |-> id, name |-> name, role |-> role, favorite_language |-> favorite_language]

\* TeamMember.introduce
introduce(self) ==
  "Hi! I'm " \o Str(self.name) \o ", a " \o self.role
    \o ". I love coding in " \o self.favorite_language \o "!"

AliceChen == <<"A","l","i","c","e"," ","C","h","e","n">>
BobWang   == <<"B","o","b"," ","W","a","n","g">>
CarolLin  == <<"C","a","r","o","l"," ","L","i","n">>

\* the module-level list literal
SeedTeam ==
  << TeamMember(1, AliceChen, "Senior Developer", "Python"),
     TeamMember(2, BobWang, "DevOps Engineer", "Go"),
     TeamMember(3, CarolLin, "Frontend Developer", "JavaScript") >>

\* ---------------------------------------------------------------- effects
\* A function body is the sequence of its side effects, in program order,
\* and its return value.

\* print(...): the lines the call writes
print(lines) == [ev |-> "print", lines |-> lines]

\* team.append(m)
append(m) == [ev |-> "append", member |-> m]

\* a mutant of team.append: the member put at the front (list.insert(0, m))
ListInsertFront(t, m) == <<m>> \o t

\* list.append: the member put after every member of the list
ListAppend(t, m) == Append(t, m)

\* the roster and the output after the effects, applied in order
RECURSIVE RunEffects(_, _, _)
RunEffects(t, out, effs) ==
  IF effs = <<>> THEN [team |-> t, stdout |-> out]
  ELSE LET e == Head(effs) IN
       IF e.ev = "print"
       THEN RunEffects(t, out \o e.lines, Tail(effs))
       ELSE RunEffects(ListAppend(t, e.member), out, Tail(effs))

\* a mutant of display_team: the count line printed without its leading "\n"
display_team_no_blank(t) ==
  [ effects |->
      << print(<<Banner>>), print(<<"TEAM ROSTER">>), print(<<Banner>>) >>
      \o [i \in 1..Len(t) |-> print(<<introduce(t[i])>>)]
      \o << print(<<"Total team members: " \o ToString(Len(t))>>),
            print(<<Banner>>) >>,
    ret |-> None ]

\* display_team()
display_team(t) ==
  [ effects |->
      << print(<<Banner>>), print(<<"TEAM ROSTER">>), print(<<Banner>>) >>
      \o [i \in 1..Len(t) |-> print(<<introduce(t[i])>>)]
      \o << print(<<"", "Total team members: " \o ToString(Len(t))>>),
            print(<<Banner>>) >>,
    ret |-> None ]

\* a mutant of add_member: role and favourite language exchanged
add_member_swapped(id, name, role, favorite_language) ==
  LET new_member == TeamMember(id, name, favorite_language, role) IN
  [ effects |->
      << append(new_member),
         print(<<"Welcome " \o Str(name) \o " to the team!">>) >>,
    ret |-> None ]

\* a mutant of add_member: an empty name is rejected, nothing is added
add_member_validating(id, name, role, favorite_language) ==
  LET new_member == TeamMember(id, name, role, favorite_language) IN
  [ effects |->
      IF name = <<>> THEN <<>>
      ELSE << append(new_member),
              print(<<"Welcome " \o Str(name) \o " to the team!">>) >>,
    ret |-> None ]

\* a mutant of add_member: the welcome line is not printed
add_member_silent(id, name, role, favorite_language) ==
  LET new_member == TeamMember(id, name, role, favorite_language) IN
  [ effects |-> << append(new_member) >>,
    ret |-> None ]

\* a mutant of add_member: the new member is returned
add_member_returning(id, name, role, favorite_language) ==
  LET new_member == TeamMember(id, name, role, favorite_language) IN
  [ effects |->
      << append(new_member),
         print(<<"Welcome " \o Str(name) \o " to the team!">>) >>,
    ret |-> new_member ]

\* add_member(name, role, favorite_language); id is the identity of the
\* object the call constructs
add_member(id, name, role, favorite_language) ==
  LET new_member == TeamMember(id, name, role, favorite_language) IN
  [ effects |->
      << append(new_member),
         print(<<"Welcome " \o Str(name) \o " to the team!">>) >>,
    ret |-> None ]

\* find_member(name): the for loop from index i on
RECURSIVE find_from(_, _, _)
find_from(t, i, name) ==
  IF i > Len(t) THEN None
  ELSE IF lower(t[i].name) = lower(name) THEN t[i]
  ELSE find_from(t, i + 1, name)

\* a mutant of the loop: the member's name need only start with the query
RECURSIVE find_prefix_from(_, _, _)
find_prefix_from(t, i, name) ==
  IF i > Len(t) THEN None
  ELSE IF /\ Len(name) <= Len(t[i].name)
          /\ SubSeq(lower(t[i].name), 1, Len(name)) = lower(name)
       THEN t[i]
  ELSE find_prefix_from(t, i + 1, name)

\* a mutant of the loop: the scan keeps going, the last match wins
RECURSIVE find_last_from(_, _, _, _)
find_last_from(t, i, name, found) ==
  IF i > Len(t) THEN found
  ELSE IF lower(t[i].name) = lower(name)
       THEN find_last_from(t, i + 1, name, t[i])
  ELSE find_last_from(t, i + 1, name, found)

find_member_prefix(t, name) ==
  [effects |-> <<>>, ret |-> find_prefix_from(t, 1, name)]

find_member_last(t, name) ==
  [effects |-> <<>>, ret |-> find_last_from(t, 1, name, None)]

\* a mutant of find_member: the search is reported on standard output
find_member_logging(t, name) ==
  [ effects |-> <<print(<<"Looking for " \o Str(name)>>)>>,
    ret |-> find_from(t, 1, name) ]

\* find_member(name)
find_member(t, name) == [effects |-> <<>>, ret |-> find_from(t, 1, name)]

\* ----------------------------------------------------------------- inputs

DanaKim      == <<"D","a","n","a"," ","K","i","m">>
aliceChenLow == <<"a","l","i","c","e"," ","c","h","e","n">>
AliceChenUp  == <<"A","L","I","C","E"," ","C","H","E","N">>
Alice        == <<"A","l","i","c","e">>
AliceChenJr  == <<"A","l","i","c","e"," ","C","h","e","n"," ","J","r">>
Nonexistent  == <<"N","o","n","e","x","i","s","t","e","n","t">>

\* arguments given to add_member: a new member, a second record equal to a
\* seed in every field, a seed's name in another case, and an empty string
\* in each of the three fields and in all of them
AddInputs ==
  { <<DanaKim, "Intern", "Rust">>,
    <<AliceChen, "Senior Developer", "Python">>,
    <<aliceChenLow, "Intern", "Rust">>,
    <<<<>>, "Intern", "Rust">>,
    <<DanaKim, "", "Rust">>,
    <<DanaKim, "Intern", "">>,
    <<<<>>, "", "">> }

AddNames == {a[1] : a \in AddInputs}

\* names given to find_member: the above, an all-capitals variant, a prefix
\* and an extension of a seed's name, and a name nobody has
Queries == AddNames \cup {AliceChenUp, Alice, AliceChenJr, Nonexistent}

\* ------------------------------------------------------------------ state

NoCall == [op |-> "none", args |-> <<>>]

Init ==
  /\ entry \in {"script", "import"}
  /\ pc = "loaded"
  /\ team = SeedTeam
  /\ allocated = Len(SeedTeam)
  /\ stdout = <<>>
  /\ lastCall = NoCall
  /\ ret = None
  /\ trace = <<>>
  /\ adds = 0
  /\ displays = 0
  /\ lastAdded = <<>>

\* a call: its effects applied in order, its return value kept
Call(op, args, result) ==
  LET after == RunEffects(team, stdout, result.effects) IN
  /\ team' = after.team
  /\ stdout' = after.stdout
  /\ trace' = result.effects
  /\ ret' = result.ret
  /\ lastCall' = [op |-> op, args |-> args]

\* if __name__ == "__main__": display_team(), then the script ends
Main ==
  /\ entry = "script"
  /\ pc = "loaded"
  /\ Call("display", <<>>, display_team(team))
  /\ pc' = "exited"
  /\ displays' = displays + 1
  /\ UNCHANGED <<entry, allocated, adds, lastAdded>>

\* a caller of the imported module calls display_team()
DisplayTeam ==
  /\ entry = "import"
  /\ displays < MaxDisplays
  /\ Call("display", <<>>, display_team(team))
  /\ displays' = displays + 1
  /\ UNCHANGED <<entry, pc, allocated, adds, lastAdded>>

\* a caller of the imported module calls add_member(name, role, language)
AddMember ==
  /\ entry = "import"
  /\ adds < MaxAdds
  /\ \E a \in AddInputs :
       /\ Call("add", a, add_member(allocated + 1, a[1], a[2], a[3]))
       /\ lastAdded' = a
  /\ allocated' = allocated + 1
  /\ adds' = adds + 1
  /\ UNCHANGED <<entry, pc, displays>>

\* a caller of the imported module calls find_member(name)
FindMember ==
  /\ entry = "import"
  /\ \E name \in Queries :
       Call("find", <<name>>, find_member(team, name))
  /\ UNCHANGED <<entry, pc, allocated, adds, displays, lastAdded>>

Next == Main \/ DisplayTeam \/ AddMember \/ FindMember

Spec == Init /\ [][Next]_vars

\* ------------------------------------------------------- stating the claims

\* two characters that are the same letter, in whatever case
SameLetter(a, b) ==
  \/ a = b
  \/ \E i \in 1..Len(Uppercase) : {a, b} = {Uppercase[i], Lowercase[i]}

\* two names equal ignoring letter case
EqIgnoreCase(x, y) ==
  /\ Len(x) = Len(y)
  /\ \A i \in 1..Len(x) : SameLetter(x[i], y[i])

\* the indices of the members whose name equals q ignoring case
Matches(t, q) == {i \in 1..Len(t) : EqIgnoreCase(t[i].name, q)}

Min(S) == CHOOSE i \in S : \A j \in S : i <= j

\* the introduction line of a member with the given fields
IntroLine(name, role, language) ==
  "Hi! I'm " \o Str(name) \o ", a " \o role \o ". I love coding in "
    \o language \o "!"

BannerLine == "=================================================="

\* the block display_team is to write for roster t
ExpectedBlock(t) ==
  <<BannerLine, "TEAM ROSTER", BannerLine>>
  \o [i \in 1..Len(t) |-> IntroLine(t[i].name, t[i].role, t[i].favorite_language)]
  \o <<"", "Total team members: " \o ToString(Len(t)), BannerLine>>

\* the positions of the print and append events of the last call
Prints  == {i \in 1..Len(trace) : trace[i].ev = "print"}
Appends == {i \in 1..Len(trace) : trace[i].ev = "append"}

\* C1: add_member makes the roster one longer, the member it constructs
\* (with exactly the three given field values, a record of its own) is the
\* last element afterwards, and the next display_team output lists that
\* member's introduction line as the last member line, with the new count.
C1_AddAppendsLast ==
  /\ [][lastCall'.op = "add" =>
          LET a == lastCall'.args
              m == team'[Len(team')] IN
          /\ Len(team') = Len(team) + 1
          /\ m.name = a[1] /\ m.role = a[2] /\ m.favorite_language = a[3]
          /\ \A i \in 1..Len(team) : team'[i].id # m.id]_vars
  /\ [](lastCall.op = "display" /\ lastAdded # <<>> =>
          /\ Len(stdout) >= 4
          /\ stdout[Len(stdout) - 3] =
               IntroLine(lastAdded[1], lastAdded[2], lastAdded[3])
          /\ stdout[Len(stdout) - 1] =
               "Total team members: " \o ToString(Len(team)))

\* Dana Kim added to the seeded roster and the roster displayed: four
\* members, Dana Kim's line the fourth
C1_Witness ==
  /\ lastCall.op = "display"
  /\ lastAdded = <<DanaKim, "Intern", "Rust">>
  /\ Len(team) = 4
  /\ stdout[Len(stdout) - 3] = "Hi! I'm Dana Kim, a Intern. I love coding in Rust!"
  /\ stdout[Len(stdout) - 1] = "Total team members: 4"

\* C2 as stated: the roster's length equals the number of add_member calls
\* made since the roster was constructed with its seed members.
C2_LengthEqualsAdds == Len(team) = adds

\* C2 as amended: the roster's length is the three seed members plus the
\* number of add_member calls made since.
C2_LengthIsSeedPlusAdds == Len(team) = 3 + adds

C2_Witness ==
  /\ adds = 2
  /\ displays = 1
  /\ lastCall.op = "find"
  /\ Len(team) = 5

\* C3: when some member's name equals the query ignoring case, find_member
\* returns the member at the smallest such index; a name that is only a
\* prefix of the query, or the query only a prefix of a name, is no match.
C3_FindFirstIgnoringCase ==
  lastCall.op = "find" =>
    LET q == lastCall.args[1]
        M == Matches(team, q) IN
    /\ M # {} => ret = team[Min(M)]
    /\ ret # None => EqIgnoreCase(ret.name, q)

\* "ALICE CHEN" is looked up after "alice chen" has been added: the seed
\* member Alice Chen is returned
C3_Witness ==
  /\ lastCall = [op |-> "find", args |-> <<AliceChenUp>>]
  /\ Len(team) >= 4
  /\ team[4].name = aliceChenLow
  /\ ret = SeedTeam[1]

\* C4: find_member returns None if and only if no member's name equals the
\* query ignoring case, and then it has raised nothing and written nothing;
\* on an empty roster it returns None.
C4_NoneIffNoMatch ==
  /\ lastCall.op = "find" =>
       /\ (ret = None <=> Matches(team, lastCall.args[1]) = {})
       /\ ret = None => trace = <<>>
  /\ \A q \in Queries : find_member(<<>>, q).ret = None

C4_Witness ==
  /\ lastCall = [op |-> "find", args |-> <<Nonexistent>>]
  /\ ret = None
  /\ adds = 0

\* C5: add_member does not de-duplicate: adding a name that a member already
\* has (exactly or ignoring case) appends a further record and keeps the
\* earlier ones, and find_member on such a name returns the member inserted
\* first, never a later one.
C5_NoDedupFirstWins ==
  /\ [][(lastCall'.op = "add" /\ Matches(team, lastCall'.args[1]) # {}) =>
          /\ Len(team') = Len(team) + 1
          /\ Matches(team', lastCall'.args[1]) =
               Matches(team, lastCall'.args[1]) \cup {Len(team')}
          /\ \A i \in 1..Len(team) : team'[i] = team[i] /\ team'[i] # team'[Len(team')]
       ]_vars
  /\ [](lastCall.op = "find" =>
          LET M == Matches(team, lastCall.args[1]) IN
          \A j \in M :
             (\E i \in M : i < j) => ret # team[j] /\ ret = team[Min(M)])

\* three members called Alice Chen in some case, the seed one found
C5_Witness ==
  /\ lastCall = [op |-> "find", args |-> <<aliceChenLow>>]
  /\ Len(team) = 5
  /\ team[4].name = AliceChen
  /\ team[5].name = aliceChenLow
  /\ ret = team[1]

\* C6: display_team writes exactly the banner, "TEAM ROSTER", the banner, one
\* introduction line per member in insertion order, a blank line, the count
\* line and the banner; the script entry point writes this block once, for
\* the three seed members, and adds nobody.
C6_DisplayBlock ==
  /\ [][lastCall'.op = "display" => stdout' = stdout \o ExpectedBlock(team)]_vars
  /\ [](entry = "script" =>
          /\ adds = 0 /\ team = SeedTeam
          /\ pc = "loaded" => stdout = <<>>
          /\ pc = "exited" =>
               stdout =
                 << BannerLine,
                    "TEAM ROSTER",
                    BannerLine,
                    "Hi! I'm Alice Chen, a Senior Developer. I love coding in Python!",
                    "Hi! I'm Bob Wang, a DevOps Engineer. I love coding in Go!",
                    "Hi! I'm Carol Lin, a Frontend Developer. I love coding in JavaScript!",
                    "",
                    "Total team members: 3",
                    BannerLine >>)

C6_Witness ==
  /\ entry = "script"
  /\ pc = "exited"
  /\ Len(stdout) = 9
  /\ Len(stdout[1]) = 50

\* C7 as stated: add_member returns the member it has appended, the last
\* element of the roster after the call.
C7_AddReturnsMember ==
  lastCall.op = "add" => ret = team[Len(team)]

\* C7 as amended: add_member returns None; the member it has constructed,
\* with the given fields, is the last element of the roster after the call.
C7_AddReturnsNone ==
  lastCall.op = "add" =>
    LET m == team[Len(team)] IN
    /\ ret = None
    /\ m.id = allocated
    /\ <<m.name, m.role, m.favorite_language>> = lastCall.args

C7_Witness ==
  /\ lastCall = [op |-> "add", args |-> <<DanaKim, "Intern", "Rust">>]
  /\ ret = None
  /\ team[Len(team)] = TeamMember(4, DanaKim, "Intern", "Rust")

\* C8: no operation mutates or removes a member: the roster before a step is
\* a prefix of the roster after it, and the three seed members stay at
\* indices 1..3 in their order.
C8_RosterOnlyGrows ==
  /\ [][/\ Len(team) <= Len(team')
        /\ \A i \in 1..Len(team) : team'[i] = team[i]]_vars
  /\ [](Len(team) >= 3 /\ \A i \in 1..3 : team[i] = SeedTeam[i])

C8_Witness ==
  /\ adds = 2
  /\ displays = 1
  /\ lastCall.op = "find"
  /\ SubSeq(team, 1, 3) = SeedTeam

\* C9: add_member rejects nothing, empty strings and names already present
\* included: every call appends the member and then writes exactly one line,
\* "Welcome {name} to the team!".
C9_AddAlwaysWelcomes ==
  /\ [][lastCall'.op = "add" =>
          /\ Len(team') = Len(team) + 1
          /\ stdout' = stdout
               \o <<"Welcome " \o Str(lastCall'.args[1]) \o " to the team!">>]_vars
  /\ [](lastCall.op = "add" =>
          /\ Cardinality(Prints) = 1
          /\ Cardinality(Appends) = 1
          /\ \A i \in Appends, j \in Prints :
               /\ i < j
               /\ trace[i].member.name = lastCall.args[1]
               /\ Len(trace[j].lines) = 1)

\* a member with three empty fields is added
C9_Witness ==
  /\ lastCall = [op |-> "add", args |-> << <<>>, "", "" >>]
  /\ stdout[Len(stdout)] = "Welcome  to the team!"
  /\ team[Len(team)].name = <<>>

\* C10: find_member and display_team leave the roster as it is; find_member
\* writes nothing to standard output, so only display_team and add_member
\* do; find_member called again with the same name, no add in between,
\* returns the same result.
C10_ReadOnly ==
  [][/\ lastCall'.op \in {"find", "display"} => team' = team
     /\ lastCall'.op = "find" => stdout' = stdout
     /\ stdout' # stdout => lastCall'.op \in {"display", "add"}
     /\ (lastCall.op = "find" /\ lastCall' = lastCall) => ret' = ret]_vars

C10_Witness ==
  /\ lastCall.op = "find"
  /\ adds = 1
  /\ displays = 1
  /\ Len(stdout) > 0
  /\ ret # None

====
